---- MODULE Spec2Model ----
(***************************************************************************)
(* A model of the database table browser (src/common.py): the helpers      *)
(* display_df and split_qualified, the loaders load_column_summary and     *)
(* load_unique_counts, and the page renderer render_table.                 *)
(*                                                                         *)
(* Each part of the program has its own specification over its own         *)
(* variables; the variables of the other parts stay idle.                  *)
(*   SpecSplit    split_qualified                                          *)
(*   SpecDisplay  display_df                                               *)
(*   SpecUnique   load_unique_counts                                       *)
(*   SpecSummary  load_column_summary                                      *)
(*   Spec         render_table (one table page of the Streamlit session)   *)
(***************************************************************************)
EXTENDS Integers, Sequences, FiniteSets, TLC

VARIABLES
    name, parsed,                      \* split_qualified: argument, result
    df_in, df, out,                    \* display_df: report given, the caller's object, result
    col_type, col_data, limit, raw, counts,   \* load_unique_counts
    cols_meta, query, row, records,    \* load_column_summary
    session, cache, shown, calls, last_uniq   \* render_table

splitVars   == <<name, parsed>>
displayVars == <<df_in, df, out>>
uniqueVars  == <<col_type, col_data, limit, raw, counts>>
summaryVars == <<cols_meta, query, row, records>>
uiVars      == <<session, cache, shown, calls, last_uniq>>
vars        == <<splitVars, displayVars, uniqueVars, summaryVars, uiVars>>

\* ------------------------------------------------------------------------
\* Generic helpers
\* ------------------------------------------------------------------------

\* All sequences over S of length 0..n.
SeqsUpTo(S, n) == UNION {[1..k -> S] : k \in 0..n}

\* ------------------------------------------------------------------------
\* split_qualified (src/common.py 39-49)
\* A name is a sequence of characters.
\* ------------------------------------------------------------------------

MaxNameLen == 5

NameChars == {"[", "]", ".", "s", "t"}

\* re.sub(r"[\[\]]", "", name)
StripBrackets(s) == SelectSeq(s, LAMBDA c : c \notin {"[", "]"})

\* str.split("."): one part more than there are dots; parts may be empty.
RECURSIVE SplitDots(_)
SplitDots(s) ==
    IF \A i \in 1..Len(s) : s[i] # "."
    THEN <<s>>
    ELSE LET d == CHOOSE i \in 1..Len(s) :
                     s[i] = "." /\ \A j \in 1..(i - 1) : s[j] # "."
         IN <<SubSeq(s, 1, d - 1)>> \o SplitDots(SubSeq(s, d + 1, Len(s)))

\* The pair (schema, table); has_schema = FALSE stands for a schema of None.
split_qualified(s) ==
    LET parts == SplitDots(StripBrackets(s))
    IN IF Len(parts) = 2
       THEN [has_schema |-> TRUE,  schema |-> parts[1], table |-> parts[2]]
       ELSE [has_schema |-> FALSE, schema |-> <<>>,     table |-> parts[1]]

NotParsed == [called |-> FALSE, has_schema |-> FALSE, schema |-> <<>>, table |-> <<>>]

\* The name of a table or view: no identifier in it is empty.
IsQualifiedName(s) ==
    LET t == StripBrackets(s)
    IN /\ t # <<>>
       /\ t[1] # "." /\ t[Len(t)] # "."
       /\ \A i \in 1..(Len(t) - 1) : ~(t[i] = "." /\ t[i + 1] = ".")

SplitInit == /\ name \in {s \in SeqsUpTo(NameChars, MaxNameLen) : IsQualifiedName(s)}
             /\ parsed = NotParsed

SplitIdle == name = <<>> /\ parsed = NotParsed

\* A caller evaluates split_qualified(name).
SplitQualified ==
    /\ ~parsed.called
    /\ parsed' = [called |-> TRUE] @@ split_qualified(name)
    /\ UNCHANGED name

\* ------------------------------------------------------------------------
\* display_df (src/common.py 27-37)
\* A DataFrame is a sequence of rows; a row maps each column label to a cell.
\* A cell is a missing value (None, NaN, NaT), a string or a number.
\* ------------------------------------------------------------------------

MaxDfRows == 2

DfColumns == {"value", "count"}

PyNone == [kind |-> "None", val |-> ""]
NaN    == [kind |-> "NaN",  val |-> ""]
NaT    == [kind |-> "NaT",  val |-> ""]
Str(s) == [kind |-> "str",  val |-> s]
Num(s) == [kind |-> "num",  val |-> s]

NullToken == Str("<NULL>")

\* The cells of the frames the page displays: missing values, numbers, and
\* strings, among them "None" and the "<NULL>" load_unique_counts puts for the
\* NULL group of a BIT column.
Cells == {PyNone, NaN, NaT, Str("None"), NullToken, Num("1")}

\* isna as a comparison of the rendered text would be: the string "None" missing too.
isna_text(c) == c.kind \in {"None", "NaN", "NaT"} \/ c = Str("None")

\* DataFrame.isna, cell by cell: None, NaN and NaT are missing; no string is.
isna(c) == c.kind \in {"None", "NaN", "NaT"}

\* The result, and the argument object as the call leaves it: the mask is
\* applied to a copy, the argument is not written.
display_df(d) ==
    LET copy == d
        masked == [i \in 1..Len(copy) |->
                      [c \in DOMAIN copy[i] |->
                          IF isna(copy[i][c]) THEN NullToken ELSE copy[i][c]]]
    IN [ret |-> masked, arg |-> d]

NoFrame == <<>>

DisplayInit == /\ df_in \in SeqsUpTo([DfColumns -> Cells], MaxDfRows)
               /\ df = df_in
               /\ out = [called |-> FALSE, frame |-> NoFrame]

DisplayIdle == /\ df_in = NoFrame
               /\ df = NoFrame
               /\ out = [called |-> FALSE, frame |-> NoFrame]

\* A caller evaluates display_df(df).
DisplayDf ==
    /\ ~out.called
    /\ LET r == display_df(df)
       IN /\ out' = [called |-> TRUE, frame |-> r.ret]
          /\ df' = r.arg
    /\ UNCHANGED df_in

\* ------------------------------------------------------------------------
\* load_unique_counts (src/common.py 174-201)
\* The inspected column is given by the __visit_name__ of its type and by
\* its values, each already as CAST(... AS NVARCHAR(MAX)) renders it
\* (a string, or None for NULL).
\* ------------------------------------------------------------------------

MaxTableRows == 3
MaxLimit == 3

VisitNames == {"BIT", "INTEGER", "VARCHAR"}

\* What a column of each type can hold, as text.
TextValues(vn) ==
    CASE vn = "BIT"     -> {Str("1"), Str("0"), PyNone}
      [] vn = "INTEGER" -> {Str("1"), Str("0"), Str("7"), PyNone}
      [] vn = "VARCHAR" -> {Str("1"), Str("0"), Str("None"), PyNone}

Range(f) == {f[i] : i \in DOMAIN f}

\* GROUP BY [col] with COUNT(*): one row per distinct value.
GroupRows(data) ==
    {[value |-> v, count |-> Cardinality({i \in DOMAIN data : data[i] = v})] :
        v \in Range(data)}

\* pd.read_sql of the grouping query: the group rows ORDER BY count DESC;
\* the order among equal counts is the server's choice.
ReadSqlGroups(data) ==
    LET g == GroupRows(data)
        n == Cardinality(g)
    IN {s \in [1..n -> g] :
           /\ \A i, j \in 1..n : i # j => s[i] # s[j]
           /\ \A i \in 1..(n - 1) : s[i].count >= s[i + 1].count}

\* str.lower of a __visit_name__
Lower(vn) ==
    CASE vn = "BIT"     -> "bit"
      [] vn = "INTEGER" -> "integer"
      [] vn = "VARCHAR" -> "varchar"

is_bit(vn) == Lower(vn) = "bit"

\* The map without its None key: NULL maps to NaN.
BitMap_no_none(v) ==
    IF v = Str("1") THEN Str("True")
    ELSE IF v = Str("0") THEN Str("False")
    ELSE NaN

\* Series.map({"1": "True", "0": "False", None: "<NULL>"}): a value that is
\* no key of the dict maps to NaN.
BitMap(v) ==
    IF v = Str("1") THEN Str("True")
    ELSE IF v = Str("0") THEN Str("False")
    ELSE IF v = PyNone THEN NullToken
    ELSE NaN

\* The return with len(df) < limit.
load_unique_counts_lt(d, vn, lim) ==
    LET mapped == IF is_bit(vn)
                  THEN [i \in 1..Len(d) |->
                           [value |-> BitMap(d[i].value), count |-> d[i].count]]
                  ELSE d
    IN IF Len(mapped) < lim
       THEN [suppressed |-> FALSE, frame |-> mapped]
       ELSE [suppressed |-> TRUE,  frame |-> NoFrame]

\* Steps 2-3 and the return, given the frame read in step 1.
load_unique_counts(d, vn, lim) ==
    LET mapped == IF is_bit(vn)
                  THEN [i \in 1..Len(d) |->
                           [value |-> BitMap(d[i].value), count |-> d[i].count]]
                  ELSE d
    IN IF Len(mapped) <= lim
       THEN [suppressed |-> FALSE, frame |-> mapped]
       ELSE [suppressed |-> TRUE,  frame |-> NoFrame]

NoCounts == [called |-> FALSE, suppressed |-> FALSE, frame |-> NoFrame]

UniqueInit == /\ col_type \in VisitNames
              /\ col_data \in SeqsUpTo(TextValues(col_type), MaxTableRows)
              /\ limit \in 0..MaxLimit
              /\ raw = NoFrame
              /\ counts = NoCounts

UniqueIdle == /\ col_type = "BIT"
              /\ col_data = <<>>
              /\ limit = 0
              /\ raw = NoFrame
              /\ counts = NoCounts

\* A caller evaluates load_unique_counts(sql_name, col, limit).
LoadUniqueCounts ==
    /\ ~counts.called
    /\ \E d \in ReadSqlGroups(col_data) :
          /\ raw' = d
          /\ counts' = [called |-> TRUE] @@ load_unique_counts(d, col_type, limit)
    /\ UNCHANGED <<col_type, col_data, limit>>

\* ------------------------------------------------------------------------
\* load_column_summary (src/common.py 74-171)
\* A column type is given by its __visit_name__, its python_type (or
\* "NotImplemented" when the property raises NotImplementedError) and the
\* SQLAlchemy classes it is an instance of.
\* ------------------------------------------------------------------------

MaxCols == 2

ColumnNames == {"a", "a_min", "b"}

SqlType(v, p, c) == [visit |-> v, python_type |-> p, classes |-> c]

\* The types the inspector of the mssql dialect reports, and JSON and NullType,
\* which UNSUPPORTED_DISTINCT names.
SqlTypes ==
    { SqlType("BIT",       "bool",           {"Boolean"}),
      SqlType("INTEGER",   "int",            {"Integer"}),
      SqlType("FLOAT",     "float",          {"Float", "Numeric"}),
      SqlType("DECIMAL",   "Decimal",        {"Numeric"}),
      SqlType("DATE",      "date",           {"Date"}),
      SqlType("DATETIME",  "datetime",       {"DateTime"}),
      SqlType("TIME",      "time",           {"Time"}),
      SqlType("VARCHAR",   "str",            {"String"}),
      SqlType("TEXT",      "str",            {"Text", "String"}),
      SqlType("NTEXT",     "str",            {"UnicodeText", "Text", "String"}),
      SqlType("BINARY",    "bytes",          {"BINARY"}),
      SqlType("VARBINARY", "bytes",          {"VARBINARY", "LargeBinary"}),
      SqlType("IMAGE",     "bytes",          {"LargeBinary"}),
      SqlType("JSON",      "dict",           {"JSON"}),
      SqlType("MONEY",     "NotImplemented", {"TypeEngine"}),
      SqlType("null",      "NotImplemented", {"NullType"}) }

\* The tuple without LargeBinary.
UNSUPPORTED_DISTINCT_no_blob ==
    {"Text", "UnicodeText", "VARBINARY", "JSON", "NullType"}

UNSUPPORTED_DISTINCT ==
    {"LargeBinary", "Text", "UnicodeText", "VARBINARY", "JSON", "NullType"}

\* isinstance(stype, UNSUPPORTED_DISTINCT)
IsInstance(t, classes) == t.classes \cap classes # {}

\* The classes a Python class is a subclass of (itself included).
PySupers(p) ==
    CASE p = "bool"     -> {"bool", "int"}
      [] p = "datetime" -> {"datetime", "date"}
      [] OTHER          -> {p}

\* ptype and issubclass(ptype, classes); ptype is None when python_type raised.
IsSubclass(p, classes) == p # "NotImplemented" /\ PySupers(p) \cap classes # {}

Expr(f, n) == [fn |-> f, col |-> n]
NullExpr == Expr("NULL", "")

\* The chain without its bool branch: bool is a subclass of int.
MinMaxAvg_no_bool(n, p) ==
    IF IsSubclass(p, {"int", "float", "Decimal"})
    THEN <<Expr("MIN", n), Expr("MAX", n), Expr("AVG", n)>>
    ELSE IF IsSubclass(p, {"date", "datetime", "str"})
    THEN <<Expr("MIN", n), Expr("MAX", n), NullExpr>>
    ELSE <<NullExpr, NullExpr, NullExpr>>

\* min_expr, max_expr and avg_expr of one column, by the if / elif chain.
MinMaxAvg(n, p) ==
    IF p = "bool"
    THEN <<NullExpr, NullExpr, NullExpr>>
    ELSE IF IsSubclass(p, {"int", "float", "Decimal"})
    THEN <<Expr("MIN", n), Expr("MAX", n), Expr("AVG", n)>>
    ELSE IF IsSubclass(p, {"date", "datetime", "str"})
    THEN <<Expr("MIN", n), Expr("MAX", n), NullExpr>>
    ELSE <<NullExpr, NullExpr, NullExpr>>

uniq_expr(n, t) ==
    IF IsInstance(t, UNSUPPORTED_DISTINCT) THEN NullExpr
    ELSE Expr("COUNT_DISTINCT", n)

null_expr(n) == Expr("SUM_IS_NULL", n)

Frag(e, a) == [expr |-> e, alias |-> a]

\* The five fragments one column adds to agg_fragments.
ColumnFragments(col) ==
    LET n == col.name
        mma == MinMaxAvg(n, col.type.python_type)
    IN << Frag(mma[1], n \o "_min"),
          Frag(mma[2], n \o "_max"),
          Frag(mma[3], n \o "_avg"),
          Frag(uniq_expr(n, col.type), n \o "_unique"),
          Frag(null_expr(n), n \o "_nulls") >>

RECURSIVE AggFragments(_)
AggFragments(meta) ==
    IF meta = <<>> THEN <<>>
    ELSE ColumnFragments(Head(meta)) \o AggFragments(Tail(meta))

\* What the server returns for one expression: NULL is None; an aggregate of
\* a column is the value of that aggregate, kept symbolic.
Eval(e) == IF e.fn = "NULL" THEN PyNone ELSE Str(e.fn \o "(" \o e.col \o ")")

\* pd.read_sql(query).iloc[0]: one field per fragment, in the query's order.
ReadSqlRow(q) == [i \in 1..Len(q) |-> [field |-> q[i].alias, value |-> Eval(q[i].expr)]]

\* row[key]
Field(r, key) == (CHOOSE f \in Range(r) : f.field = key).value

\* __visit_name__.upper(): every visit name but NullType's is upper case.
Upper(vn) == IF vn = "null" THEN "NULL" ELSE vn

PyTypeName(p) == IF p = "NotImplemented" THEN "<NULL>" ELSE p

Record(col, r) ==
    LET n == col.name
    IN [column  |-> n,
        sqltype |-> Upper(col.type.visit),
        pytype  |-> PyTypeName(col.type.python_type),
        min     |-> Field(r, n \o "_min"),
        max     |-> Field(r, n \o "_max"),
        avg     |-> Field(r, n \o "_avg"),
        unique  |-> Field(r, n \o "_unique"),
        nulls   |-> Field(r, n \o "_nulls")]

\* The reshape loop over the columns in reverse.
Reshape_reversed(meta, r) ==
    [i \in 1..Len(meta) |-> Record(meta[Len(meta) + 1 - i], r)]

\* The reshape loop: one record per column of cols_meta, in its order.
Reshape(meta, r) == [i \in 1..Len(meta) |-> Record(meta[i], r)]

\* insp.get_columns: a table has at least one column and no two of a name.
ColumnLists ==
    {m \in SeqsUpTo([name : ColumnNames, type : SqlTypes], MaxCols) :
        /\ Len(m) >= 1
        /\ \A i, j \in 1..Len(m) : i # j => m[i].name # m[j].name}

SummaryInit == /\ cols_meta \in ColumnLists
               /\ query = <<>>
               /\ row = <<>>
               /\ records = <<>>

SummaryIdle == /\ cols_meta = <<>>
               /\ query = <<>>
               /\ row = <<>>
               /\ records = <<>>

\* A caller evaluates load_column_summary(sql_name).
LoadColumnSummary ==
    /\ records = <<>>
    /\ LET q == AggFragments(cols_meta)
           r == ReadSqlRow(q)
       IN /\ query' = q
          /\ row' = r
          /\ records' = Reshape(cols_meta, r)
    /\ UNCHANGED cols_meta

\* ------------------------------------------------------------------------
\* Specifications of the helpers and loaders
\* ------------------------------------------------------------------------

\* ------------------------------------------------------------------------
\* render_table (src/common.py 204-315): one table page of a session.
\* Every user interaction runs the script once, top to bottom; st.rerun()
\* ends the run and runs it again. An exception ends the run where it is
\* raised; what was written to st.session_state before it stays.
\* ------------------------------------------------------------------------

MinRows == 1
MaxRows == 20
DefaultRows == 5

\* What a user may type into a row-cap input.
TypedValues == {MinRows - 1, MinRows, MaxRows, MaxRows + 1}

\* The columns of the inspected view, in the inspector's order: one of few
\* distinct values, one of more than 300, and a TEXT column, which the server
\* refuses to GROUP BY.
Columns == <<"status", "id", "notes">>

ColumnSet == {Columns[i] : i \in 1..Len(Columns)}

\* st.session_state under the page's keys; 0 and "" stand for an absent key.
\* TOP and RANDOM hold the cap the stored frame was loaded with, and
\* UNIQUE_COUNTS the column the stored frame counts.
NoSession ==
    [TOP |-> 0, TOP_N |-> 0, RANDOM |-> 0, RANDOM_N |-> 0, SUMMARY |-> FALSE,
     UNIQUE_COUNTS |-> "", COL_SELECTED |-> ""]

\* What a run has put on the page: the n of each heading and the cap of the
\* frame under it (0: not displayed), the summary, the unique-value table (the
\* column it counts), the message box, and how far down the widgets go: "none",
\* "top" (the inputs and the TOP-N button), "both" (the random button too) or
\* "all" (the selectbox and the unique-counts button too).
NothingShown ==
    [top |-> 0, top_rows |-> 0, rnd |-> 0, rnd_rows |-> 0, summary |-> FALSE,
     uniq |-> "", msg |-> "none", widgets |-> "none"]

\* A run ended by an exception raised after the widgets w were drawn.
ErrorShown(w) == [NothingShown EXCEPT !.msg = "error", !.widgets = w]

\* A key of st.cache_resource: the function and its arguments.
CacheKey(f, n, c) == [fn |-> f, n |-> n, col |-> c]

Call(f, n) == [fn |-> f, n |-> n]

\* A number input that takes what is typed as it is.
NumberInput_unbounded(lo, hi, typed) == typed

\* st.number_input(label, 1, 20, value, 1): the widget keeps what is typed
\* within min_value..max_value.
NumberInput(lo, hi, typed) ==
    IF typed < lo THEN lo ELSE IF typed > hi THEN hi ELSE typed

\* session_state.get(key, 5)
GetOr(v, default) == IF v = 0 THEN default ELSE v

\* A cached function returns without the database when its key is cached,
\* and raises when it is not and the database fails.
Returns(c, key, up) == key \in c \/ up

\* load_unique_counts on a column of the view: a frame, None, or an exception.
UniqueResult(col) ==
    CASE col = "status" -> "frame"
      [] col = "id"     -> "None"
      [] col = "notes"  -> "raises"

Result(s, c, sh, k, u) ==
    [session |-> s, cache |-> c, shown |-> sh, calls |-> k, uniq |-> u]

\* The script from the counts on (lines 251-315), given the widget values, the
\* button of the unique counts pressed or not, and the database up or not.
\* k: the load calls made so far in this interaction.
RenderBody(s0, c0, top_n, rnd_n, col, pressed, up, k) ==
    LET counts_key == CacheKey("get_table_counts", 0, "")
    IN IF ~Returns(c0, counts_key, up)
       THEN Result(s0, c0, ErrorShown("both"), k, "none")
       ELSE
       LET c1 == c0 \cup {counts_key}
           sh1 == [NothingShown EXCEPT
                      !.widgets  = "all",
                      !.top      = IF s0.TOP # 0 THEN top_n ELSE 0,
                      !.top_rows = s0.TOP,
                      !.rnd      = IF s0.RANDOM # 0 THEN rnd_n ELSE 0,
                      !.rnd_rows = s0.RANDOM,
                      !.summary  = s0.SUMMARY]
           s1 == [s0 EXCEPT !.COL_SELECTED = col]
           uniq_key == CacheKey("load_unique_counts", 0, col)
       IN IF ~pressed
          THEN Result(s1, c1, [sh1 EXCEPT !.uniq = s1.UNIQUE_COUNTS], k, "none")
          ELSE IF UniqueResult(col) = "raises" \/ ~Returns(c1, uniq_key, up)
          THEN Result(s1, c1, [sh1 EXCEPT !.msg = "error"], k, "error")
          ELSE IF UniqueResult(col) = "None"
          THEN Result([s1 EXCEPT !.UNIQUE_COUNTS = ""], c1 \cup {uniq_key},
                      [sh1 EXCEPT !.msg = "warning"], k, "suppressed")
          ELSE \* stored, st.rerun(): the run after it finds every key cached
               Result([s1 EXCEPT !.UNIQUE_COUNTS = col], c1 \cup {uniq_key},
                      [sh1 EXCEPT !.uniq = col], k, "ok")

\* One interaction: the script with the widget values top_n, rnd_n and col,
\* and the button ev ("none", "top", "rnd", "uniq") pressed.
render_table(s, c, top_n, rnd_n, col, ev, up) ==
    LET s1 == [s EXCEPT !.RANDOM_N = rnd_n, !.TOP_N = top_n]
        top_key == CacheKey("load_top", top_n, "")
        rnd_key == CacheKey("load_random", rnd_n, "")
        sum_key == CacheKey("load_column_summary", 0, "")
    IN CASE ev = "top" ->
              IF ~Returns(c, top_key, up)
              THEN Result(s1, c, ErrorShown("top"), {Call("load_top", top_n)}, "none")
              ELSE RenderBody([s1 EXCEPT !.TOP = top_n], c \cup {top_key},
                              top_n, rnd_n, col, FALSE, up,
                              {Call("load_top", top_n)})
         [] ev = "rnd" ->
              IF ~Returns(c, rnd_key, up)
              THEN Result(s1, c, ErrorShown("both"), {Call("load_random", rnd_n)},
                          "none")
              ELSE IF ~Returns(c, sum_key, up)
              THEN Result([s1 EXCEPT !.RANDOM = rnd_n], c \cup {rnd_key},
                          ErrorShown("both"), {Call("load_random", rnd_n)}, "none")
              ELSE RenderBody([s1 EXCEPT !.RANDOM = rnd_n, !.SUMMARY = TRUE],
                              c \cup {rnd_key, sum_key},
                              top_n, rnd_n, col, FALSE, up,
                              {Call("load_random", rnd_n)})
         [] ev = "uniq" -> RenderBody(s1, c, top_n, rnd_n, col, TRUE, up, {})
         [] OTHER -> RenderBody(s1, c, top_n, rnd_n, col, FALSE, up, {})

\* The value each widget returns when the user has not touched it.
CurTop == GetOr(session.TOP_N, DefaultRows)
CurRnd == GetOr(session.RANDOM_N, DefaultRows)
CurCol == IF session.COL_SELECTED = "" THEN Columns[1] ELSE session.COL_SELECTED

Apply(r) ==
    /\ session' = r.session
    /\ cache' = r.cache
    /\ shown' = r.shown
    /\ calls' = r.calls
    /\ last_uniq' = IF r.uniq = "none" THEN last_uniq ELSE r.uniq
    /\ UNCHANGED <<splitVars, displayVars, uniqueVars, summaryVars>>

\* The page has run once: the inputs and the TOP-N button are on it.
Opened == shown.widgets # "none"

UiInit == /\ session = NoSession
          /\ cache = {}
          /\ shown = NothingShown
          /\ calls = {}
          /\ last_uniq = "never"

UiIdle == UiInit

\* The user opens the page, or something reruns it.
Rerun ==
    /\ shown.widgets \in {"none", "top", "both", "all"}   \* whatever the page shows
    /\ \E up \in BOOLEAN :
          Apply(render_table(session, cache, CurTop, CurRnd, CurCol, "none", up))

\* The user types into the TOP-N input.
ChangeTopN ==
    /\ Opened
    /\ \E typed \in TypedValues, up \in BOOLEAN :
          Apply(render_table(session, cache, NumberInput(MinRows, MaxRows, typed),
                             CurRnd, CurCol, "none", up))

\* The user types into the random-sample input.
ChangeRndN ==
    /\ Opened
    /\ \E typed \in TypedValues, up \in BOOLEAN :
          Apply(render_table(session, cache, CurTop,
                             NumberInput(MinRows, MaxRows, typed), CurCol, "none", up))

\* The user picks a column in the selectbox.
SelectColumn ==
    /\ shown.widgets = "all"
    /\ \E col \in ColumnSet, up \in BOOLEAN :
          Apply(render_table(session, cache, CurTop, CurRnd, col, "none", up))

\* The user presses "Load TOP-N".
PressLoadTop ==
    /\ Opened
    /\ \E up \in BOOLEAN :
          Apply(render_table(session, cache, CurTop, CurRnd, CurCol, "top", up))

\* The user presses "Load random sample & summary".
PressLoadRandom ==
    /\ shown.widgets \in {"both", "all"}
    /\ \E up \in BOOLEAN :
          Apply(render_table(session, cache, CurTop, CurRnd, CurCol, "rnd", up))

\* The user presses "Load unique counts".
PressLoadUnique ==
    /\ shown.widgets = "all"
    /\ \E up \in BOOLEAN :
          Apply(render_table(session, cache, CurTop, CurRnd, CurCol, "uniq", up))

Init == SplitIdle /\ DisplayIdle /\ UniqueIdle /\ SummaryIdle /\ UiInit

Next ==
    \/ Rerun
    \/ ChangeTopN
    \/ ChangeRndN
    \/ SelectColumn
    \/ PressLoadTop
    \/ PressLoadRandom
    \/ PressLoadUnique

Spec == Init /\ [][Next]_vars

InitSplit == SplitInit /\ DisplayIdle /\ UniqueIdle /\ SummaryIdle /\ UiIdle
NextSplit ==
    SplitQualified /\ UNCHANGED <<displayVars, uniqueVars, summaryVars, uiVars>>
SpecSplit == InitSplit /\ [][NextSplit]_vars

InitDisplay == SplitIdle /\ DisplayInit /\ UniqueIdle /\ SummaryIdle /\ UiIdle
NextDisplay ==
    DisplayDf /\ UNCHANGED <<splitVars, uniqueVars, summaryVars, uiVars>>
SpecDisplay == InitDisplay /\ [][NextDisplay]_vars

InitUnique == SplitIdle /\ DisplayIdle /\ UniqueInit /\ SummaryIdle /\ UiIdle
NextUnique ==
    LoadUniqueCounts /\ UNCHANGED <<splitVars, displayVars, summaryVars, uiVars>>
SpecUnique == InitUnique /\ [][NextUnique]_vars

InitSummary == SplitIdle /\ DisplayIdle /\ UniqueIdle /\ SummaryInit /\ UiIdle
NextSummary ==
    LoadColumnSummary /\ UNCHANGED <<splitVars, displayVars, uniqueVars, uiVars>>
SpecSummary == InitSummary /\ [][NextSummary]_vars

\* ------------------------------------------------------------------------
\* Properties of split_qualified
\* ------------------------------------------------------------------------

\* The claim's reading of a name: brackets stripped, split at the first dot.
C6_FirstDotSplit(s) ==
    LET t == StripBrackets(s)
        dots == {i \in 1..Len(t) : t[i] = "."}
    IN IF dots = {}
       THEN [has_schema |-> FALSE, schema |-> <<>>, table |-> t]
       ELSE LET d == CHOOSE i \in dots : \A j \in dots : i <= j
            IN [has_schema |-> TRUE,
                schema |-> SubSeq(t, 1, d - 1),
                table |-> SubSeq(t, d + 1, Len(t))]

\* C6: split_qualified strips the brackets and splits on the first dot only:
\* the schema is the text before the first dot, the table everything after it,
\* and a name without a dot has no schema.
C6_SplitsOnFirstDotOnly ==
    parsed.called =>
        LET e == C6_FirstDotSplit(name)
        IN /\ parsed.has_schema = e.has_schema
           /\ parsed.schema = e.schema
           /\ parsed.table = e.table

\* ------------------------------------------------------------------------
\* Properties of display_df
\* ------------------------------------------------------------------------

C5_Missing(c) == c \in {PyNone, NaN, NaT}

C5_SameShape ==
    /\ Len(out.frame) = Len(df_in)
    /\ \A i \in 1..Len(df_in) : DOMAIN out.frame[i] = DOMAIN df_in[i]

\* C5 as claimed: the result has the shape of the report, a cell of it is
\* "<NULL>" exactly when the report's cell is missing, every other cell is
\* untouched, and the report itself is not modified.
C5_NullTokenIffMissing ==
    out.called =>
        /\ C5_SameShape
        /\ \A i \in 1..Len(df_in) : \A c \in DOMAIN df_in[i] :
              /\ (out.frame[i][c] = NullToken) <=> C5_Missing(df_in[i][c])
              /\ ~C5_Missing(df_in[i][c]) => out.frame[i][c] = df_in[i][c]
        /\ df = df_in

\* C5 amended: a cell of the result is "<NULL>" exactly when the report's cell
\* is missing or already is the string "<NULL>"; every cell that is not missing
\* (the string "None" included) is untouched; the shape is kept and the report
\* itself is not modified.
C5_NullTokenIffMissingOrToken ==
    out.called =>
        /\ C5_SameShape
        /\ \A i \in 1..Len(df_in) : \A c \in DOMAIN df_in[i] :
              /\ (out.frame[i][c] = NullToken)
                    <=> (C5_Missing(df_in[i][c]) \/ df_in[i][c] = Str("<NULL>"))
              /\ ~C5_Missing(df_in[i][c]) => out.frame[i][c] = df_in[i][c]
        /\ df = df_in

\* A report with a missing cell and the string "None" has been normalised.
C5_Witness ==
    /\ out.called
    /\ \E i \in 1..Len(df_in) :
          /\ df_in[i]["value"] = PyNone
          /\ df_in[i]["count"] = Str("None")
          /\ out.frame[i]["value"] = Str("<NULL>")
          /\ out.frame[i]["count"] = Str("None")

\* ------------------------------------------------------------------------
\* Properties of load_unique_counts
\* ------------------------------------------------------------------------

C3_Distinct == {col_data[i] : i \in DOMAIN col_data}

C3_Occurrences(v) == Cardinality({i \in DOMAIN col_data : col_data[i] = v})

\* C3: load_unique_counts returns None if and only if the column has more
\* than limit distinct groups; otherwise (exactly limit groups included) it
\* returns every group with its count, by count descending, none cut off.
C3_SuppressedIffOverLimit ==
    counts.called =>
        /\ counts.suppressed <=> Cardinality(C3_Distinct) > limit
        /\ ~counts.suppressed =>
              /\ Len(counts.frame) = Cardinality(C3_Distinct)
              /\ \A v \in C3_Distinct :
                    \E i \in 1..Len(counts.frame) :
                       /\ raw[i].value = v
                       /\ counts.frame[i].count = C3_Occurrences(v)
              /\ \A i \in 1..(Len(counts.frame) - 1) :
                    counts.frame[i].count >= counts.frame[i + 1].count

\* A column of exactly limit groups, two or more, is returned whole.
C3_Witness ==
    /\ counts.called
    /\ ~counts.suppressed
    /\ limit >= 2
    /\ Cardinality(C3_Distinct) = limit
    /\ Len(counts.frame) = limit

C4_Remap(v) ==
    CASE v = Str("1") -> Str("True")
      [] v = Str("0") -> Str("False")
      [] v = PyNone   -> Str("<NULL>")

\* C4: on a BIT column every grouped value is remapped "1" -> "True",
\* "0" -> "False", NULL -> "<NULL>", counts and order as read; on a column of
\* any other type the frame is returned as read.
C4_BitRemapOnly ==
    (counts.called /\ ~counts.suppressed) =>
        IF col_type = "BIT"
        THEN /\ Len(counts.frame) = Len(raw)
             /\ \A i \in 1..Len(raw) :
                   /\ counts.frame[i].value = C4_Remap(raw[i].value)
                   /\ counts.frame[i].count = raw[i].count
        ELSE counts.frame = raw

\* A BIT column holding 1, 0 and NULL has been counted and remapped.
C4_Witness ==
    /\ counts.called
    /\ ~counts.suppressed
    /\ col_type = "BIT"
    /\ {raw[i].value : i \in 1..Len(raw)} = {Str("1"), Str("0"), PyNone}
    /\ {counts.frame[i].value : i \in 1..Len(counts.frame)}
          = {Str("True"), Str("False"), Str("<NULL>")}

\* ------------------------------------------------------------------------
\* Properties of load_column_summary
\* ------------------------------------------------------------------------

\* The semantic category of a column, from its python type.
C1_Category(t) ==
    CASE t.python_type = "bool"                        -> "boolean"
      [] t.python_type \in {"int", "float", "Decimal"} -> "numeric"
      [] t.python_type \in {"date", "datetime", "str"} -> "temporal_or_text"
      [] OTHER                                         -> "unsupported"

\* The types COUNT(DISTINCT ...) is not attempted on.
C1_NoDistinctCount == {"TEXT", "NTEXT", "VARBINARY", "IMAGE", "JSON", "null"}

C1_Expected(col) ==
    LET n == col.name
        cat == C1_Category(col.type)
        agg(f) == [fn |-> f, col |-> n]
        null == [fn |-> "NULL", col |-> ""]
    IN << IF cat \in {"numeric", "temporal_or_text"} THEN agg("MIN") ELSE null,
          IF cat \in {"numeric", "temporal_or_text"} THEN agg("MAX") ELSE null,
          IF cat = "numeric" THEN agg("AVG") ELSE null,
          IF col.type.visit \in C1_NoDistinctCount
             THEN null ELSE agg("COUNT_DISTINCT"),
          agg("SUM_IS_NULL") >>

\* C1: the summary query holds exactly five expressions per column, chosen by
\* the column's category: min, max and avg are NULL for boolean and
\* unsupported, MIN, MAX and AVG for numeric, MIN, MAX and NULL for
\* temporal_or_text; nulls is the count of NULLs; unique is COUNT(DISTINCT)
\* exactly when the type supports a distinct count and NULL otherwise.
C1_FiveExpressionsByCategory ==
    records # <<>> =>
        /\ Len(query) = 5 * Len(cols_meta)
        /\ \A i \in 1..Len(cols_meta) : \A k \in 1..5 :
              query[5 * (i - 1) + k].expr = C1_Expected(cols_meta[i])[k]

\* A summary of a large-object text column and a BIT column: the first has
\* MIN and MAX but a NULL unique, the second NULL extrema and a distinct count.
C1_Witness ==
    /\ records # <<>>
    /\ Len(cols_meta) = 2
    /\ cols_meta[1].type.visit = "TEXT"
    /\ query[1].expr.fn = "MIN" /\ query[4].expr.fn = "NULL"
    /\ cols_meta[2].type.visit = "BIT"
    /\ query[6].expr.fn = "NULL" /\ query[9].expr.fn = "COUNT_DISTINCT"

C7_Metrics == {"min", "max", "avg", "unique", "nulls"}

\* C7: the report has one record per column descriptor, in the descriptors'
\* order, and each metric of the record of column c is the value of the field
\* c_<metric> of the result row.
C7_OneRecordPerColumnInOrder ==
    records # <<>> =>
        /\ Len(records) = Len(cols_meta)
        /\ \A i \in 1..Len(cols_meta) :
              /\ records[i].column = cols_meta[i].name
              /\ \A m \in C7_Metrics :
                    /\ \E j \in 1..Len(row) :
                          row[j].field = cols_meta[i].name \o "_" \o m
                    /\ \A j \in 1..Len(row) :
                          row[j].field = cols_meta[i].name \o "_" \o m
                             => records[i][m] = row[j].value

\* A summary of the numeric columns a_min and a, in that order.
C7_Witness ==
    /\ records # <<>>
    /\ Len(cols_meta) = 2
    /\ cols_meta[1].name = "a_min" /\ cols_meta[2].name = "a"
    /\ records[1].min = Str("MIN(a_min)")
    /\ records[2].min = Str("MIN(a)")

\* ------------------------------------------------------------------------
\* Properties of render_table
\* ------------------------------------------------------------------------

\* C8: every call of load_top and load_random receives a row cap n with
\* 1 <= n <= 20.
C8_RowCapWithinRange ==
    \A k \in calls : 1 <= k.n /\ k.n <= 20

\* Both loaders have been called at the ends of the range.
C8_Witness ==
    /\ Call("load_random", 20) \in calls
    /\ session.TOP = 1
    /\ session.RANDOM = 20

\* C9: a unique-value table is stored in the session, and displayed, only if
\* the most recent "Load unique counts" succeeded with its rows not suppressed.
C9_TableOnlyAfterSuccessfulLoad ==
    /\ session.UNIQUE_COUNTS # "" => last_uniq = "ok"
    /\ shown.uniq # "" => last_uniq = "ok"

\* C10: whenever a TOP-N preview or a random sample is displayed, the row
\* count in its heading is the cap its rows were loaded with.
C10_HeadingNamesLoadedCap ==
    /\ shown.top # 0 => shown.top = shown.top_rows
    /\ shown.rnd # 0 => shown.rnd = shown.rnd_rows

====
